---- MODULE Spec2Model ----
(***************************************************************************)
(* Model of the noisy-point sampling and clustering scripts of             *)
(* src/mocked_localization: sample_noisy_nodes, recover_center_points and  *)
(* main() of streets_as_cluster_nodes.py.                                  *)
(*                                                                         *)
(* Numbers.  Coordinates, distances and noise are kept in fixed point: a   *)
(* draw of the random source is k/Q with k in 0..Q-1, and every sampled    *)
(* coordinate is stored as the integer number of 1/Q units.  Geometries    *)
(* are polylines with integer vertices whose segments are axis-aligned,    *)
(* so that arc lengths are integers.                                       *)
(***************************************************************************)
EXTENDS Integers, Sequences, FiniteSets, TLC

VARIABLES
    pc,                    \* position in the running script / the called function
    rng,                   \* numpy's global random source: [seed, pos]
    edges_gdf,             \* the edge collection: a sequence of geometries
    num_samples_per_edge,  \* N
    noise_level,           \* e
    noisy_x, noisy_y,      \* what sample_noisy_nodes returned
    min_samples,           \* minPts
    estimated_eps,         \* eps
    noisy_points_df,       \* the data frame: a sequence of rows
    labels_,               \* dbscan.labels_
    num_clusters,          \* the reported cluster count
    recovered_points_df,   \* what recover_center_points returned
    csv,                   \* the rows written by to_csv (header first)
    err,                   \* the stage whose exception ended the run, or "none"
    calls,                 \* how often recover_center_points has been called
    random,                \* the random module's source in the node scripts: [seed, pos]
    graph,                 \* the downloaded graph: [nodes, x, y, edges]
    graph_modified,        \* the copy the node scripts change
    random_nodes_to_delete,\* delete_nodes.py: the selected nodes
    deleted_node_coords,   \* delete_nodes.py: the marker coordinates
    nodes_to_move,         \* move_nodes.py: the selected nodes
    original_coords,       \* move_nodes.py: node -> coordinates before the move
    new_coords             \* move_nodes.py: node -> coordinates after the move

\* the state of the sampling and clustering scripts, pc aside
pipelineVars == <<rng, edges_gdf, num_samples_per_edge, noise_level, noisy_x, noisy_y,
                  min_samples, estimated_eps, noisy_points_df, labels_, num_clusters,
                  recovered_points_df, csv, err>>

\* the state of the node scripts, pc aside
nodeVars == <<random, graph, graph_modified, random_nodes_to_delete, deleted_node_coords,
              nodes_to_move, original_coords, new_coords>>

vars == <<pc, pipelineVars, calls, nodeVars>>

\* no node script is running
NodesBlank ==
    /\ random = [seed |-> 0, pos |-> 0]
    /\ graph = [nodes |-> {}, x |-> << >>, y |-> << >>, edges |-> {}]
    /\ graph_modified = [nodes |-> {}, x |-> << >>, y |-> << >>, edges |-> {}]
    /\ random_nodes_to_delete = << >>
    /\ deleted_node_coords = << >>
    /\ nodes_to_move = << >>
    /\ original_coords = << >>
    /\ new_coords = << >>

(***************************************************************************)
(* Bounds of the model.                                                    *)
(***************************************************************************)
Q == 3            \* the random source yields k/Q, k in 0..Q-1
Period == 3       \* the modelled generator repeats after Period draws
MaxEdges == 2     \* at most this many geometries in an edge collection
MaxSamples == 2   \* the largest sample count N
MaxPoints == 4    \* the largest point collection handed to the clustering stage
MaxDistinct == 6  \* the largest collection of pairwise distinct points handed to DBSCAN
MaxRows == 3      \* the largest labelled frame handed to recover_center_points alone
MaxCalls == 2     \* how often recover_center_points is called on one frame
MaxNodes == 11    \* the largest downloaded graph of the node scripts

NoiseLevels == {0, 1}
EpsValues == {0, 1, 2}
MinPtsValues == {0, 1, 2, 3}

Abs(a) == IF a < 0 THEN -a ELSE a

RECURSIVE Pow(_, _)
Pow(b, n) == IF n = 0 THEN 1 ELSE b * Pow(b, n - 1)

\* The geometries an edge collection is made of: vertex sequences.
Geoms ==
    { << <<0, 0>>, <<2, 0>> >>,
      << <<0, 0>>, <<0, 1>>, <<1, 1>> >>,
      << <<3, 0>>, <<3, 2>> >> }

RECURSIVE SeqsUpTo(_, _)
SeqsUpTo(S, n) ==
    IF n = 0 THEN { << >> }
    ELSE LET shorter == SeqsUpTo(S, n - 1)
         IN  shorter \cup { Append(s, e) : s \in { t \in shorter : Len(t) = n - 1 }, e \in S }

EdgeCollections == SeqsUpTo(Geoms, MaxEdges)

(***************************************************************************)
(* The geometry library: length and interpolate of a polyline.             *)
(***************************************************************************)
SegLen(a, b) == Abs(b[1] - a[1]) + Abs(b[2] - a[2])

RECURSIVE GeomLengthFrom(_, _)
GeomLengthFrom(g, i) ==
    IF i >= Len(g) THEN 0 ELSE SegLen(g[i], g[i + 1]) + GeomLengthFrom(g, i + 1)

\* geometry.length, in whole units
GeomLength(g) == GeomLengthFrom(g, 1)

\* The point at arc length d (in 1/Q units) from vertex i on, in 1/Q units.
RECURSIVE InterpolateFrom(_, _, _)
InterpolateFrom(g, i, d) ==
    IF i >= Len(g) THEN [x |-> Q * g[Len(g)][1], y |-> Q * g[Len(g)][2]]
    ELSE LET a == g[i]
             b == g[i + 1]
             l == Q * SegLen(a, b)
         IN  IF d < l
             THEN \* on this segment: a + (d/l) * (b - a), exact for axis-aligned segments
                  [x |-> Q * a[1] + (IF b[1] > a[1] THEN d ELSE IF b[1] < a[1] THEN -d ELSE 0),
                   y |-> Q * a[2] + (IF b[2] > a[2] THEN d ELSE IF b[2] < a[2] THEN -d ELSE 0)]
             ELSE InterpolateFrom(g, i + 1, d - l)

\* geometry.interpolate(distance): distances past the end give the last vertex,
\* distances at or before the start the first.
Interpolate(g, d) == IF d <= 0 THEN InterpolateFrom(g, 1, 0) ELSE InterpolateFrom(g, 1, d)

(***************************************************************************)
(* numpy's global random source.  The generator is a deterministic         *)
(* function of the seed and of the number of draws made since seeding; an  *)
(* unseeded process starts from an arbitrary seed.                         *)
(***************************************************************************)
Seeds == 0 .. (Pow(Q, Period) - 1)

\* The pos-th output (a numerator k of k/Q) after seeding with seed.
Generator(seed, pos) == (seed \div Pow(Q, pos % Period)) % Q

\* np.random.seed(s)
SeedRng(s) == [seed |-> s, pos |-> 0]

\* np.random.rand(n): n numerators, drawn in order
Rand(r, n) == [k \in 1..n |-> Generator(r.seed, r.pos + k - 1)]

\* A uniform draw over twice the asked width.
UniformWide(r, low, high, n) ==
    [k \in 1..n |-> 2 * Q * low + 2 * (high - low) * Generator(r.seed, r.pos + k - 1)]

\* np.random.uniform(low, high, n) = low + (high - low) * random_sample(n), in 1/Q units
Uniform(r, low, high, n) ==
    [k \in 1..n |-> Q * low + (high - low) * Generator(r.seed, r.pos + k - 1)]

\* An advance that also reseeds the source.
AdvanceReseeding(r, n) == [seed |-> (r.seed + 1) % Pow(Q, Period), pos |-> r.pos + n]

Advance(r, n) == [r EXCEPT !.pos = r.pos + n]

(***************************************************************************)
(* sample_noisy_nodes (streets_as_noisy_nodes.py).                         *)
(***************************************************************************)
\* Series.repeat(n) followed by the index reset: every element n times in a row.
Repeat(s, n) == [k \in 1..(Len(s) * n) |-> s[((k - 1) \div n) + 1]]

\* ndarray.repeat with a scalar count refuses a negative result length; on an
\* empty array the result length is 0 whatever the count.
RepeatRaises(s, n) == Len(s) * n < 0

\* edges_gdf.length
Lengths(edges) == [i \in 1..Len(edges) |-> GeomLength(edges[i])]

\* A body that draws the y noise before the x noise.
SampleAllYFirst(edges, n, noise, r) ==
    LET total_samples == Len(edges) * n
        repeated_geoms == Repeat(edges, n)
        repeated_lengths == Repeat(Lengths(edges), n)
        random_factors == Rand(r, total_samples)
        points ==
            [k \in 1..Len(repeated_geoms) |->
                Interpolate(repeated_geoms[k], repeated_lengths[k] * random_factors[k])]
        r1 == Advance(r, total_samples)
        noise_y == Uniform(r1, -noise, noise, total_samples)
        r2 == Advance(r1, total_samples)
        noise_x == Uniform(r2, -noise, noise, total_samples)
    IN  [raised |-> FALSE,
         x |-> [k \in 1..Len(points) |-> points[k].x + noise_x[k]],
         y |-> [k \in 1..Len(points) |-> points[k].y + noise_y[k]],
         rng |-> Advance(r2, total_samples)]

\* lines 23-45: the vectorised body
SampleAll(edges, n, noise, r) ==
    LET total_samples == Len(edges) * n
        repeated_geoms == Repeat(edges, n)
        repeated_lengths == Repeat(Lengths(edges), n)
        random_factors == Rand(r, total_samples)
        random_distances ==
            [k \in 1..Len(repeated_lengths) |-> repeated_lengths[k] * random_factors[k]]
        points ==
            [k \in 1..Len(repeated_geoms) |->
                Interpolate(repeated_geoms[k], random_distances[k])]
        r1 == Advance(r, total_samples)
        noise_x == Uniform(r1, -noise, noise, total_samples)
        r2 == Advance(r1, total_samples)
        noise_y == Uniform(r2, -noise, noise, total_samples)
        final_x == [k \in 1..Len(points) |-> points[k].x + noise_x[k]]
        final_y == [k \in 1..Len(points) |-> points[k].y + noise_y[k]]
    IN  [raised |-> FALSE, x |-> final_x, y |-> final_y,
         rng |-> Advance(r2, total_samples)]

Raised(r) == [raised |-> TRUE, x |-> << >>, y |-> << >>, rng |-> r]

\* A sampler that forgets the repeat: one sample per geometry.
sample_one_per_edge(edges, n, noise, r) ==
    IF RepeatRaises(edges, n) THEN Raised(r)
    ELSE SampleAll(edges, IF n > 0 THEN 1 ELSE n, noise, r)

sample_noisy_nodes(edges, n, noise, r) ==
    IF RepeatRaises(edges, n) THEN Raised(r) ELSE SampleAll(edges, n, noise, r)

\* pd.DataFrame({'x': noisy_x, 'y': noisy_y})
DataFrame(xs, ys) == [k \in 1..Len(xs) |-> [x |-> xs[k], y |-> ys[k]]]

(***************************************************************************)
(* main() of streets_as_cluster_nodes.py, one action per numbered step.    *)
(***************************************************************************)
SeedValue == 42

SetSeed ==
    /\ pc = "start"
    /\ rng' = SeedRng(SeedValue)
    /\ pc' = "seeded"
    /\ UNCHANGED <<edges_gdf, num_samples_per_edge, noise_level, noisy_x, noisy_y,
                   min_samples, estimated_eps, noisy_points_df, labels_, num_clusters,
                   recovered_points_df, csv, err>>
    /\ UNCHANGED <<calls, nodeVars>>

\* graph_from_point / project_graph / graph_to_gdfs: the edges of a downloaded graph
\* (graph_to_gdfs refuses a graph without edges), or the download's exception.
Download ==
    /\ pc = "seeded"
    /\ \/ /\ \E g \in EdgeCollections \ { << >> } : edges_gdf' = g
          /\ pc' = "downloaded"
          /\ err' = err
       \/ /\ edges_gdf' = edges_gdf
          /\ pc' = "error"
          /\ err' = "download"
    /\ UNCHANGED <<rng, num_samples_per_edge, noise_level, noisy_x, noisy_y,
                   min_samples, estimated_eps, noisy_points_df, labels_, num_clusters,
                   recovered_points_df, csv>>
    /\ UNCHANGED <<calls, nodeVars>>

\* lines 40-41: the call of sample_noisy_nodes and the data frame built from it
Sample ==
    /\ pc = "downloaded"
    /\ LET res == sample_noisy_nodes(edges_gdf, num_samples_per_edge, noise_level, rng)
       IN  IF res.raised
           THEN /\ pc' = "error"
                /\ err' = "sample"
                /\ UNCHANGED <<rng, noisy_x, noisy_y, noisy_points_df>>
           ELSE /\ pc' = "sampled"
                /\ err' = err
                /\ rng' = res.rng
                /\ noisy_x' = res.x
                /\ noisy_y' = res.y
                /\ noisy_points_df' = DataFrame(res.x, res.y)
    /\ UNCHANGED <<edges_gdf, num_samples_per_edge, noise_level, min_samples,
                   estimated_eps, labels_, num_clusters, recovered_points_df, csv>>
    /\ UNCHANGED <<calls, nodeVars>>

(***************************************************************************)
(* The neighbours and clustering library, as main() calls it.  Distances   *)
(* are compared squared; eps is in the data frame's units.                 *)
(***************************************************************************)
Dist2(p, q) == (p.x - q.x) * (p.x - q.x) + (p.y - q.y) * (p.y - q.y)

\* radius_neighbors(X, radius=eps): the rows within eps of row i, row i included
Neighborhood(X, eps, i) == { j \in 1..Len(X) : Dist2(X[i], X[j]) <= eps * eps }

\* Core rows counted without the row itself.
CoreSamplesWithoutSelf(X, eps, ms) ==
    { i \in 1..Len(X) : Cardinality(Neighborhood(X, eps, i) \ {i}) >= ms }

\* core_samples: the rows whose neighbourhood holds at least min_samples rows
CoreSamples(X, eps, ms) ==
    { i \in 1..Len(X) : Cardinality(Neighborhood(X, eps, i)) >= ms }

\* labels with label_num written to every row of S
RECURSIVE Assign(_, _, _)
Assign(labels, S, label_num) ==
    IF S = {} THEN labels
    ELSE LET v == CHOOSE v \in S : TRUE
         IN  Assign([labels EXCEPT ![v] = label_num], S \ {v}, label_num)

\* An expansion that stops at the direct neighbours of the starting row.
ExpandOnce(X, eps, core, labels, S) ==
    S \cup { v \in UNION { Neighborhood(X, eps, u) : u \in S \cap core } : labels[v] = -1 }

\* One run of the inner loop's stack: everything still unlabelled that is reached
\* from S through the neighbourhoods of core rows.
RECURSIVE Expand(_, _, _, _, _)
Expand(X, eps, core, labels, S) ==
    LET new == { v \in UNION { Neighborhood(X, eps, u) : u \in S \cap core } :
                    v \notin S /\ labels[v] = -1 }
    IN  IF new = {} THEN S ELSE Expand(X, eps, core, labels, S \cup new)

\* dbscan_inner: rows in index order; an unlabelled core row starts cluster label_num
RECURSIVE dbscan_inner(_, _, _, _, _, _)
dbscan_inner(X, eps, core, i, labels, label_num) ==
    IF i > Len(X) THEN labels
    ELSE IF labels[i] # -1 \/ i \notin core
         THEN dbscan_inner(X, eps, core, i + 1, labels, label_num)
         ELSE dbscan_inner(X, eps, core, i + 1,
                  Assign(labels, Expand(X, eps, core, labels, {i}), label_num),
                  label_num + 1)

\* DBSCAN(eps, min_samples).fit raises on a non-positive eps, a min_samples below 1
\* and an empty X
DBSCANRaises(X, eps, ms) == eps <= 0 \/ ms < 1 \/ Len(X) = 0

\* DBSCAN(eps=eps, min_samples=ms).fit_predict(X)
DBSCAN(X, eps, ms) ==
    dbscan_inner(X, eps, CoreSamples(X, eps, ms), 1, [v \in 1..Len(X) |-> -1], 0)

\* NearestNeighbors(n_neighbors=k).fit(X).kneighbors(X) raises on k < 1, on an empty
\* X and on k above the number of rows
KNeighborsRaises(X, k) == k < 1 \/ Len(X) = 0 \/ k > Len(X)

\* noisy_points_df[['x', 'y']]
XY(df) == [k \in 1..Len(df) |-> [x |-> df[k].x, y |-> df[k].y]]

\* A column assignment that is off by one row.
WithClusterShifted(df, labels) ==
    [k \in 1..Len(df) |->
        [x |-> df[k].x, y |-> df[k].y, cluster |-> labels[(k % Len(df)) + 1]]]

\* A column assignment that gives every row the first label.
WithClusterFirst(df, labels) ==
    [k \in 1..Len(df) |-> [x |-> df[k].x, y |-> df[k].y, cluster |-> labels[1]]]

\* noisy_points_df['cluster'] = labels: the k-th label goes to the k-th row
WithCluster(df, labels) ==
    [k \in 1..Len(df) |-> [x |-> df[k].x, y |-> df[k].y, cluster |-> labels[k]]]

\* set(labels)
LabelSet(labels) == { labels[k] : k \in 1..Len(labels) }

(***************************************************************************)
(* recover_center_points.  A mean is kept as a fraction in lowest terms.   *)
(***************************************************************************)
RECURSIVE GCD(_, _)
GCD(a, b) == IF b = 0 THEN a ELSE GCD(b, a % b)

Frac(n, d) == LET g == GCD(Abs(n), d) IN [num |-> n \div g, den |-> d \div g]

RECURSIVE SumSeq(_)
SumSeq(v) == IF v = << >> THEN 0 ELSE Head(v) + SumSeq(Tail(v))

\* Series.mean()
Mean(v) == Frac(SumSeq(v), Len(v))

\* A filter that keeps the noise rows.
KeepsNoise(row) == TRUE

IsValid(row) == row.cluster # -1

\* A groupby that keeps the smallest key only.
GroupMeansFirstKey(frame) ==
    LET keys == { frame[k].cluster : k \in 1..Len(frame) }
    IN  [c \in { c \in keys : \A d \in keys : c <= d } |->
            [x |-> Frac(0, 1), y |-> Frac(0, 1)]]

\* groupby('cluster')[['x', 'y']].mean() of a frame
GroupMeans(frame) ==
    LET keys == { frame[k].cluster : k \in 1..Len(frame) }
        Group(c) == SelectSeq(frame, LAMBDA row : row.cluster = c)
    IN  [c \in keys |->
            [x |-> Mean([k \in 1..Len(Group(c)) |-> Group(c)[k].x]),
             y |-> Mean([k \in 1..Len(Group(c)) |-> Group(c)[k].y])]]

\* A recovery without the noise filter.
recover_all_points(df) == GroupMeans(df)

recover_center_points(df) ==
    LET valid_clusters == SelectSeq(df, IsValid)
    IN  GroupMeans(valid_clusters)

\* A table without the noise rows.
ToCsvValid(df) ==
    << <<"x", "y", "cluster">> >> \o
    [k \in 1..Len(SelectSeq(df, IsValid)) |->
        <<SelectSeq(df, IsValid)[k].x, SelectSeq(df, IsValid)[k].y,
          SelectSeq(df, IsValid)[k].cluster>>]

\* A table written with the index column.
ToCsvWithIndex(df) ==
    << <<"", "x", "y", "cluster">> >> \o
    [k \in 1..Len(df) |-> <<k - 1, df[k].x, df[k].y, df[k].cluster>>]

\* DataFrame.to_csv(index=False): the header, then one line per row
ToCsv(df) ==
    << <<"x", "y", "cluster">> >> \o [k \in 1..Len(df) |-> <<df[k].x, df[k].y, df[k].cluster>>]

(***************************************************************************)
(* main(), continued.                                                      *)
(***************************************************************************)
\* lines 48-72: the k-distance graph; its result is only plotted
EstimateEps ==
    /\ pc = "sampled"
    /\ IF KNeighborsRaises(XY(noisy_points_df), min_samples)
       THEN pc' = "error" /\ err' = "kneighbors"
       ELSE pc' = "estimated" /\ err' = err
    /\ UNCHANGED <<rng, edges_gdf, num_samples_per_edge, noise_level, noisy_x, noisy_y,
                   min_samples, estimated_eps, noisy_points_df, labels_, num_clusters,
                   recovered_points_df, csv>>
    /\ UNCHANGED <<calls, nodeVars>>

\* lines 78-82
Cluster ==
    /\ pc = "estimated"
    /\ IF DBSCANRaises(XY(noisy_points_df), estimated_eps, min_samples)
       THEN /\ pc' = "error"
            /\ err' = "dbscan"
            /\ UNCHANGED <<labels_, noisy_points_df, num_clusters>>
       ELSE /\ labels_' = DBSCAN(XY(noisy_points_df), estimated_eps, min_samples)
            /\ noisy_points_df' = WithCluster(noisy_points_df, labels_')
            /\ num_clusters' = Cardinality(LabelSet(labels_'))
                                  - (IF -1 \in LabelSet(labels_') THEN 1 ELSE 0)
            /\ pc' = "clustered"
            /\ err' = err
    /\ UNCHANGED <<rng, edges_gdf, num_samples_per_edge, noise_level, noisy_x, noisy_y,
                   min_samples, estimated_eps, recovered_points_df, csv>>
    /\ UNCHANGED <<calls, nodeVars>>

\* line 86
Recover ==
    /\ pc = "clustered"
    /\ recovered_points_df' = recover_center_points(noisy_points_df)
    /\ pc' = "recovered"
    /\ UNCHANGED <<rng, edges_gdf, num_samples_per_edge, noise_level, noisy_x, noisy_y,
                   min_samples, estimated_eps, noisy_points_df, labels_, num_clusters,
                   csv, err>>
    /\ UNCHANGED <<calls, nodeVars>>

\* lines 88-90
Save ==
    /\ pc = "recovered"
    /\ csv' = ToCsv(noisy_points_df)
    /\ pc' = "saved"
    /\ UNCHANGED <<rng, edges_gdf, num_samples_per_edge, noise_level, noisy_x, noisy_y,
                   min_samples, estimated_eps, noisy_points_df, labels_, num_clusters,
                   recovered_points_df, err>>
    /\ UNCHANGED <<calls, nodeVars>>

\* lines 92-105: the plot reads the frames and changes nothing
Plot ==
    /\ pc = "saved"
    /\ pc' = "done"
    /\ UNCHANGED <<rng, edges_gdf, num_samples_per_edge, noise_level, noisy_x, noisy_y,
                   min_samples, estimated_eps, noisy_points_df, labels_, num_clusters,
                   recovered_points_df, csv, err>>
    /\ UNCHANGED <<calls, nodeVars>>

(***************************************************************************)
(* Specifications.                                                         *)
(***************************************************************************)
Blank ==
    /\ noisy_x = << >>
    /\ noisy_y = << >>
    /\ noisy_points_df = << >>
    /\ labels_ = << >>
    /\ num_clusters = 0
    /\ recovered_points_df = << >>
    /\ csv = << >>
    /\ err = "none"

\* sample_noisy_nodes called on any edge collection, with any parameters, from any
\* state of the random source.
InitSampler ==
    /\ pc = "downloaded"
    /\ rng \in [seed : Seeds, pos : {0}]
    /\ edges_gdf \in EdgeCollections
    /\ num_samples_per_edge \in -1..MaxSamples
    /\ noise_level \in NoiseLevels
    /\ min_samples = 1
    /\ estimated_eps = 1
    /\ Blank
    /\ calls = 0
    /\ NodesBlank

NextSampler == Sample

SpecSampler == InitSampler /\ [][NextSampler]_vars

\* main(): the process starts with the random source in an arbitrary state.
Init ==
    /\ pc = "start"
    /\ rng \in [seed : Seeds, pos : {0}]
    /\ edges_gdf = << >>
    /\ num_samples_per_edge \in 0..MaxSamples
    /\ noise_level \in NoiseLevels
    /\ min_samples \in MinPtsValues
    /\ estimated_eps \in EpsValues
    /\ Blank
    /\ calls = 0
    /\ NodesBlank

Next == SetSeed \/ Download \/ Sample \/ EstimateEps \/ Cluster \/ Recover \/ Save \/ Plot

Spec == Init /\ [][Next]_vars

\* The clustering part of main() on any collection of sampled points.
Sites ==
    { [x |-> 0, y |-> 0], [x |-> 1, y |-> 0], [x |-> 2, y |-> 0],
      [x |-> 0, y |-> 1], [x |-> 4, y |-> 0], [x |-> 4, y |-> 1] }

PointCollections == SeqsUpTo(Sites, MaxPoints)

InitCluster ==
    /\ pc = "sampled"
    /\ rng = SeedRng(SeedValue)
    /\ edges_gdf = << >>
    /\ num_samples_per_edge = 0
    /\ noise_level = 0
    /\ \E pts \in PointCollections :
           /\ noisy_x = [k \in 1..Len(pts) |-> pts[k].x]
           /\ noisy_y = [k \in 1..Len(pts) |-> pts[k].y]
           /\ noisy_points_df = pts
    /\ min_samples \in MinPtsValues
    /\ estimated_eps \in EpsValues
    /\ labels_ = << >>
    /\ num_clusters = 0
    /\ recovered_points_df = << >>
    /\ csv = << >>
    /\ err = "none"
    /\ calls = 0
    /\ NodesBlank

NextCluster == EstimateEps \/ Cluster \/ Recover \/ Save \/ Plot

SpecCluster == InitCluster /\ [][NextCluster]_vars

\* The DBSCAN call of main() on pairwise distinct points, in every order.
OrderSites ==
    { [x |-> 0, y |-> 2], [x |-> 1, y |-> 2], [x |-> 3, y |-> 4], [x |-> 3, y |-> 0],
      [x |-> 5, y |-> 2], [x |-> 6, y |-> 2], [x |-> 3, y |-> 2] }

RECURSIVE DistinctSeqsUpTo(_, _)
DistinctSeqsUpTo(S, n) ==
    IF n = 0 THEN { << >> }
    ELSE LET shorter == DistinctSeqsUpTo(S, n - 1)
         IN  shorter \cup
             UNION { { Append(s, e) : e \in S \ { s[k] : k \in 1..Len(s) } } :
                     s \in { t \in shorter : Len(t) = n - 1 } }

DistinctCollections == DistinctSeqsUpTo(OrderSites, MaxDistinct)

InitOrder ==
    /\ pc = "estimated"
    /\ rng = SeedRng(SeedValue)
    /\ edges_gdf = << >>
    /\ num_samples_per_edge = 0
    /\ noise_level = 0
    /\ \E pts \in DistinctCollections :
           /\ noisy_x = [k \in 1..Len(pts) |-> pts[k].x]
           /\ noisy_y = [k \in 1..Len(pts) |-> pts[k].y]
           /\ noisy_points_df = pts
    /\ min_samples \in {3, 4}
    /\ estimated_eps \in {2, 3}
    /\ labels_ = << >>
    /\ num_clusters = 0
    /\ recovered_points_df = << >>
    /\ csv = << >>
    /\ err = "none"
    /\ calls = 0
    /\ NodesBlank

NextOrder == Cluster

SpecOrder == InitOrder /\ [][NextOrder]_vars

\* recover_center_points called again and again on any labelled frame.
LabelledRows == { [x |-> p.x, y |-> p.y, cluster |-> c] : p \in Sites, c \in -1..1 }

LabelledFrames == SeqsUpTo(LabelledRows, MaxRows)

InitRecover ==
    /\ pc = "clustered"
    /\ rng = SeedRng(SeedValue)
    /\ edges_gdf = << >>
    /\ num_samples_per_edge = 0
    /\ noise_level = 0
    /\ noisy_points_df \in LabelledFrames
    /\ noisy_x = [k \in 1..Len(noisy_points_df) |-> noisy_points_df[k].x]
    /\ noisy_y = [k \in 1..Len(noisy_points_df) |-> noisy_points_df[k].y]
    /\ labels_ = [k \in 1..Len(noisy_points_df) |-> noisy_points_df[k].cluster]
    /\ min_samples = 1
    /\ estimated_eps = 1
    /\ num_clusters = 0
    /\ recovered_points_df = << >>
    /\ csv = << >>
    /\ err = "none"
    /\ calls = 0
    /\ NodesBlank

\* A call that drops the noise rows from the frame it was given.
RecoverInPlace ==
    /\ pc \in {"clustered", "recovered"}
    /\ calls < MaxCalls
    /\ noisy_points_df' = SelectSeq(noisy_points_df, IsValid)
    /\ recovered_points_df' = recover_center_points(noisy_points_df)
    /\ calls' = calls + 1
    /\ pc' = "recovered"
    /\ UNCHANGED <<rng, edges_gdf, num_samples_per_edge, noise_level, noisy_x, noisy_y,
                   min_samples, estimated_eps, labels_, num_clusters, csv, err, nodeVars>>

\* one call of recover_center_points(df): lines 12-20 build valid_clusters and
\* center_points as new frames and write to no row or column of df
RecoverCall ==
    /\ pc \in {"clustered", "recovered"}
    /\ calls < MaxCalls
    /\ recovered_points_df' = recover_center_points(noisy_points_df)
    /\ calls' = calls + 1
    /\ pc' = "recovered"
    /\ UNCHANGED <<rng, edges_gdf, num_samples_per_edge, noise_level, noisy_x, noisy_y,
                   min_samples, estimated_eps, noisy_points_df, labels_, num_clusters,
                   csv, err, nodeVars>>

NextRecover == RecoverCall

SpecRecover == InitRecover /\ [][NextRecover]_vars

(***************************************************************************)
(* The node scripts, src/nodes/delete_nodes.py and src/nodes/move_nodes.py.*)
(* A graph is [nodes, x, y, edges]; x and y map a node to its coordinate,   *)
(* counted in units of offset_magnitude / Q.  Both scripts run inside one   *)
(* try block whose handler prints the exception: pc = "caught".             *)
(***************************************************************************)
Min(a, b) == IF a <= b THEN a ELSE b

Range(s) == { s[k] : k \in 1..Len(s) }

RECURSIVE Ascending(_)
Ascending(S) ==
    IF S = {} THEN << >>
    ELSE LET m == CHOOSE m \in S : \A e \in S : m <= e
         IN  <<m>> \o Ascending(S \ {m})

Reverse(s) == [k \in 1..Len(s) |-> s[Len(s) + 1 - k]]

\* ox.graph_from_address: a street network of n nodes along one street
graph_from_address(n) ==
    [nodes |-> 1..n,
     x |-> [i \in 1..n |-> 7 * i],
     y |-> [i \in 1..n |-> 5 * (i % 3)],
     edges |-> { <<i, i + 1>> : i \in 1..(n - 1) }]

\* list(graph.nodes())
all_nodes(G) == Ascending(G.nodes)

\* the 10 of min(10, len(all_nodes))
NumRandomNodes == 10

\* random.sample(population, k): k elements at distinct positions, in some order.
\* Of the orders, the ascending and the descending one are kept.
RandomSample(population, k) ==
    UNION { { Ascending(S), Reverse(Ascending(S)) } :
            S \in { S \in SUBSET Range(population) : Cardinality(S) = k } }

\* graph.copy(): a new graph with new node attribute dictionaries
Copy(G) == G

\* A removal that stops after the first node of the list.
RemoveFirstNode(G, nodes) ==
    LET gone == IF nodes = << >> THEN {} ELSE {nodes[1]}
    IN  [nodes |-> G.nodes \ gone,
         x |-> [i \in G.nodes \ gone |-> G.x[i]],
         y |-> [i \in G.nodes \ gone |-> G.y[i]],
         edges |-> { e \in G.edges : e[1] \notin gone /\ e[2] \notin gone }]

\* G.remove_nodes_from(nodes): the nodes go, and every edge at one of them
remove_nodes_from(G, nodes) ==
    LET gone == Range(nodes)
    IN  [nodes |-> G.nodes \ gone,
         x |-> [i \in G.nodes \ gone |-> G.x[i]],
         y |-> [i \in G.nodes \ gone |-> G.y[i]],
         edges |-> { e \in G.edges : e[1] \notin gone /\ e[2] \notin gone }]

(***************************************************************************)
(* delete_nodes.py, one action per numbered step.                          *)
(***************************************************************************)
\* lines 17-19: the download, or its exception
DeleteDownload ==
    /\ pc = "delete_start"
    /\ \/ /\ \E n \in 1..MaxNodes : graph' = graph_from_address(n)
          /\ pc' = "delete_downloaded"
       \/ /\ graph' = graph
          /\ pc' = "caught"
    /\ UNCHANGED <<pipelineVars, calls, random, graph_modified, random_nodes_to_delete,
                   deleted_node_coords, nodes_to_move, original_coords, new_coords>>

\* lines 23-31
SelectToDelete ==
    /\ pc = "delete_downloaded"
    /\ LET num_random_nodes == Min(NumRandomNodes, Len(all_nodes(graph)))
       IN  random_nodes_to_delete' \in RandomSample(all_nodes(graph), num_random_nodes)
    /\ pc' = "delete_selected"
    /\ UNCHANGED <<pipelineVars, calls, random, graph, graph_modified,
                   deleted_node_coords, nodes_to_move, original_coords, new_coords>>

\* lines 35-37
RemoveNodes ==
    /\ pc = "delete_selected"
    /\ graph_modified' = remove_nodes_from(Copy(graph), random_nodes_to_delete)
    /\ pc' = "delete_removed"
    /\ UNCHANGED <<pipelineVars, calls, random, graph, random_nodes_to_delete,
                   deleted_node_coords, nodes_to_move, original_coords, new_coords>>

\* lines 43-71: the plot of the modified graph and the markers, whose coordinates
\* are read from the original graph (a node missing there raises KeyError)
MarkDeleted ==
    /\ pc = "delete_removed"
    /\ IF Range(random_nodes_to_delete) \subseteq graph.nodes
       THEN /\ deleted_node_coords' =
                   [k \in 1..Len(random_nodes_to_delete) |->
                       <<graph.x[random_nodes_to_delete[k]],
                         graph.y[random_nodes_to_delete[k]]>>]
            /\ pc' = "delete_marked"
       ELSE /\ deleted_node_coords' = deleted_node_coords
            /\ pc' = "caught"
    /\ UNCHANGED <<pipelineVars, calls, random, graph, graph_modified,
                   random_nodes_to_delete, nodes_to_move, original_coords, new_coords>>

\* lines 75-80
ShowDeleted ==
    /\ pc = "delete_marked"
    /\ pc' = "done"
    /\ UNCHANGED <<pipelineVars, calls, nodeVars>>

\* no sampling or clustering script is running
PipelineBlank ==
    /\ rng = SeedRng(SeedValue)
    /\ edges_gdf = << >>
    /\ num_samples_per_edge = 0
    /\ noise_level = 0
    /\ min_samples = 1
    /\ estimated_eps = 1
    /\ Blank
    /\ calls = 0

InitDelete ==
    /\ pc = "delete_start"
    /\ PipelineBlank
    /\ NodesBlank

NextDelete == DeleteDownload \/ SelectToDelete \/ RemoveNodes \/ MarkDeleted \/ ShowDeleted

SpecDelete == InitDelete /\ [][NextDelete]_vars

(***************************************************************************)
(* move_nodes.py.  The random module's source is modelled like numpy's: a  *)
(* deterministic generator started from an arbitrary seed.                  *)
(***************************************************************************)
\* random.random(): the next output of the source, a numerator over Q
Random(r) == Generator(r.seed, r.pos)

\* offset_magnitude = 0.0003 degrees: Q units
offset_magnitude == Q

\* An offset of twice the magnitude.
OffsetDoubled(k) == (2 * (2 * k - Q) * offset_magnitude) \div Q

\* (random.random() - 0.5) * 2 * offset_magnitude for random.random() = k/Q, in units
Offset(k) == ((2 * k - Q) * offset_magnitude) \div Q

\* f with key k set to v (a dict assignment)
SetItem(f, k, v) == [i \in (DOMAIN f) \cup {k} |-> IF i = k THEN v ELSE f[i]]

\* lines 17-19: the download, or its exception
MoveDownload ==
    /\ pc = "move_start"
    /\ \/ /\ \E n \in 1..MaxNodes : graph' = graph_from_address(n)
          /\ pc' = "move_downloaded"
       \/ /\ graph' = graph
          /\ pc' = "caught"
    /\ UNCHANGED <<pipelineVars, calls, random, graph_modified, random_nodes_to_delete,
                   deleted_node_coords, nodes_to_move, original_coords, new_coords>>

\* lines 23-37: the selection, the copy and the two empty dictionaries
SelectToMove ==
    /\ pc = "move_downloaded"
    /\ LET num_random_nodes == Min(NumRandomNodes, Len(all_nodes(graph)))
       IN  nodes_to_move' \in RandomSample(all_nodes(graph), num_random_nodes)
    /\ graph_modified' = Copy(graph)
    /\ original_coords' = << >>
    /\ new_coords' = << >>
    /\ pc' = "move_loop"
    /\ UNCHANGED <<pipelineVars, calls, random, graph, random_nodes_to_delete,
                   deleted_node_coords>>

\* lines 39-54: one turn of the loop, for the next node of nodes_to_move
MoveNode ==
    /\ pc = "move_loop"
    /\ Cardinality(DOMAIN original_coords) < Len(nodes_to_move)
    /\ LET node == nodes_to_move[Cardinality(DOMAIN original_coords) + 1]
           original_x == graph.x[node]
           original_y == graph.y[node]
           offset_x == Offset(Random(random))
           offset_y == Offset(Random(Advance(random, 1)))
           new_x == original_x + offset_x
           new_y == original_y + offset_y
       IN  /\ original_coords' = SetItem(original_coords, node, <<original_x, original_y>>)
           /\ graph_modified' = [graph_modified EXCEPT !.x[node] = new_x, !.y[node] = new_y]
           /\ new_coords' = SetItem(new_coords, node, <<new_x, new_y>>)
    /\ random' = Advance(random, 2)
    /\ pc' = "move_loop"
    /\ UNCHANGED <<pipelineVars, calls, graph, random_nodes_to_delete,
                   deleted_node_coords, nodes_to_move>>

\* line 56: the loop has run through nodes_to_move
MoveLoopEnd ==
    /\ pc = "move_loop"
    /\ Cardinality(DOMAIN original_coords) = Len(nodes_to_move)
    /\ pc' = "move_moved"
    /\ UNCHANGED <<pipelineVars, calls, nodeVars>>

\* lines 62-91: the plot; zip(*original_coords.values()) raises when nothing was moved
PlotMoved ==
    /\ pc = "move_moved"
    /\ pc' = IF DOMAIN original_coords = {} THEN "caught" ELSE "done"
    /\ UNCHANGED <<pipelineVars, calls, nodeVars>>

InitMove ==
    /\ pc = "move_start"
    /\ PipelineBlank
    /\ random \in [seed : Seeds, pos : {0}]
    /\ graph = [nodes |-> {}, x |-> << >>, y |-> << >>, edges |-> {}]
    /\ graph_modified = [nodes |-> {}, x |-> << >>, y |-> << >>, edges |-> {}]
    /\ random_nodes_to_delete = << >>
    /\ deleted_node_coords = << >>
    /\ nodes_to_move = << >>
    /\ original_coords = << >>
    /\ new_coords = << >>

NextMove == MoveDownload \/ SelectToMove \/ MoveNode \/ MoveLoopEnd \/ PlotMoved

SpecMove == InitMove /\ [][NextMove]_vars

(***************************************************************************)
(* Claims about sample_noisy_nodes.                                        *)
(***************************************************************************)
\* p (in 1/Q units) lies on the segment from vertex a to vertex b
OnSegment(a, b, p) ==
    /\ (b[1] - a[1]) * (p.y - Q * a[2]) = (b[2] - a[2]) * (p.x - Q * a[1])
    /\ (IF a[1] <= b[1] THEN Q * a[1] ELSE Q * b[1]) <= p.x
    /\ p.x <= (IF a[1] <= b[1] THEN Q * b[1] ELSE Q * a[1])
    /\ (IF a[2] <= b[2] THEN Q * a[2] ELSE Q * b[2]) <= p.y
    /\ p.y <= (IF a[2] <= b[2] THEN Q * b[2] ELSE Q * a[2])

OnGeometry(g, p) == \E i \in 1..(Len(g) - 1) : OnSegment(g[i], g[i + 1], p)

\* the geometry the k-th returned point was sampled on
GeomOf(k) == edges_gdf[((k - 1) \div num_samples_per_edge) + 1]

Returned == pc = "sampled" /\ num_samples_per_edge >= 0

\* C1: for N >= 0 the sampler returns an x and a y sequence of exactly N * G
\* entries each (N for one geometry, none when N = 0 or G = 0).
C1_SampleCount ==
    Returned =>
        /\ Len(noisy_x) = num_samples_per_edge * Len(edges_gdf)
        /\ Len(noisy_y) = num_samples_per_edge * Len(edges_gdf)
        /\ (Len(edges_gdf) = 1 => Len(noisy_x) = num_samples_per_edge)
        /\ (num_samples_per_edge = 0 \/ Len(edges_gdf) = 0 => noisy_x = << >> /\ noisy_y = << >>)

C1_Witness ==
    /\ Returned
    /\ num_samples_per_edge = 2
    /\ Len(edges_gdf) = 2
    /\ Len(noisy_x) = 4
    /\ Len(noisy_y) = 4

\* C2: every returned point comes from a base point on its own geometry at an arc
\* length d with 0 <= d < length, and differs from it by at most e on each axis, so
\* that it is within e*sqrt(2) of the geometry; with e = 0 it lies on the geometry.
C2_NearGeometry ==
    (Returned /\ noise_level >= 0) =>
        \A k \in 1..Len(noisy_x) :
            LET g == GeomOf(k)
                p == [x |-> noisy_x[k], y |-> noisy_y[k]]
            IN  /\ \E d \in 0..(Q * GeomLength(g) - 1) :
                       LET b == Interpolate(g, d)
                       IN  /\ OnGeometry(g, b)
                           /\ Abs(p.x - b.x) <= Q * noise_level
                           /\ Abs(p.y - b.y) <= Q * noise_level
                           /\ (p.x - b.x) * (p.x - b.x) + (p.y - b.y) * (p.y - b.y)
                                  <= 2 * (Q * noise_level) * (Q * noise_level)
                /\ (noise_level = 0 => OnGeometry(g, p))

C2_Witness ==
    /\ Returned
    /\ noise_level = 1
    /\ Len(noisy_x) >= 2
    /\ \E k \in 1..Len(noisy_x) :
           ~ OnGeometry(GeomOf(k), [x |-> noisy_x[k], y |-> noisy_y[k]])
    /\ \E k \in 1..Len(noisy_x) :
           \/ Abs(noisy_x[k] - Interpolate(GeomOf(k), 0).x) > Q * noise_level
           \/ Abs(noisy_y[k] - Interpolate(GeomOf(k), 0).y) > Q * noise_level

(***************************************************************************)
(* Claims about the clustering stage and recover_center_points.            *)
(***************************************************************************)
Clustered == pc \in {"clustered", "recovered", "saved", "done"}

Recovered == pc \in {"recovered", "saved", "done"}

\* rows i and j of the frame are within eps of each other
Near(i, j) ==
    Dist2(noisy_points_df[i], noisy_points_df[j]) <= estimated_eps * estimated_eps

\* the density rule's core point: at least minPts rows, itself included, within eps
IsCorePoint(i) ==
    Cardinality({ j \in 1..Len(noisy_points_df) : Near(i, j) }) >= min_samples

Rows == 1..Len(noisy_points_df)

\* C3: every point gets exactly one label, by the density rule: core points within
\* eps of each other share a label; a non-core point within eps of a core point has
\* the label of such a core point; a point within eps of no core point is noise (-1).
C3_DensityRule ==
    Clustered =>
        /\ Len(labels_) = Len(noisy_points_df)
        /\ \A i \in Rows : labels_[i] \in -1..(Len(labels_) - 1)
        /\ \A i \in Rows : noisy_points_df[i].cluster = labels_[i]
        /\ \A i, j \in Rows :
               (IsCorePoint(i) /\ IsCorePoint(j) /\ Near(i, j)) =>
                   (labels_[i] = labels_[j] /\ labels_[i] # -1)
        /\ \A i \in Rows :
               (~ IsCorePoint(i) /\ \E j \in Rows : IsCorePoint(j) /\ Near(i, j)) =>
                   \E j \in Rows : IsCorePoint(j) /\ Near(i, j) /\ labels_[j] = labels_[i]
        /\ \A i \in Rows :
               (~ \E j \in Rows : IsCorePoint(j) /\ Near(i, j)) => labels_[i] = -1

\* a core point, a non-core point absorbed by a cluster and a noise point together
C3_Witness ==
    /\ Clustered
    /\ \E i \in Rows : IsCorePoint(i)
    /\ \E i \in Rows : ~ IsCorePoint(i) /\ labels_[i] # -1
    /\ \E i \in Rows : labels_[i] = -1

Members(c) == { k \in Rows : noisy_points_df[k].cluster = c }

RECURSIVE SumX(_)
SumX(S) == IF S = {} THEN 0
           ELSE LET k == CHOOSE k \in S : TRUE IN noisy_points_df[k].x + SumX(S \ {k})

RECURSIVE SumY(_)
SumY(S) == IF S = {} THEN 0
           ELSE LET k == CHOOSE k \in S : TRUE IN noisy_points_df[k].y + SumY(S \ {k})

\* C4: the keys of the returned mapping are exactly the labels other than -1 that
\* occur, and each value is the mean x and the mean y over exactly the points that
\* carry the label; noise points contribute to no centroid.
C4_Centroids ==
    Recovered =>
        /\ DOMAIN recovered_points_df = { noisy_points_df[k].cluster : k \in Rows } \ {-1}
        /\ \A c \in DOMAIN recovered_points_df :
               LET m == recovered_points_df[c]
                   n == Cardinality(Members(c))
               IN  /\ m.x.den > 0
                   /\ m.y.den > 0
                   /\ m.x.num * n = m.x.den * SumX(Members(c))
                   /\ m.y.num * n = m.y.den * SumY(Members(c))

\* three clustered points with a fractional centroid beside a noise point
C4_Witness ==
    /\ Recovered
    /\ \E k \in Rows : noisy_points_df[k].cluster = -1
    /\ \E c \in DOMAIN recovered_points_df :
           /\ Cardinality(Members(c)) = 3
           /\ recovered_points_df[c].x = [num |-> 1, den |-> 3]
           /\ recovered_points_df[c].y = [num |-> 1, den |-> 3]

(***************************************************************************)
(* Claims about the order of the input points.                             *)
(***************************************************************************)
\* Two reorderings that generate every order of the rows: the first two rows
\* exchanged, and every row moved one place down with the last row going first.
\* Each maps a row of this order to its place in the other order.
SwapFirst == [k \in Rows |-> IF k = 1 /\ Len(noisy_points_df) > 1 THEN 2
                            ELSE IF k = 2 THEN 1 ELSE k]

RotateOne == [k \in Rows |-> (k % Len(noisy_points_df)) + 1]

Reorderings == {SwapFirst, RotateOne}

\* the frame's points in the other order
Reordered(m) == [j \in Rows |-> XY(noisy_points_df)[CHOOSE k \in Rows : m[k] = j]]

\* the labels the points get when clustered in the other order, listed in this order
LabelsAfter(m) ==
    LET other == DBSCAN(Reordered(m), estimated_eps, min_samples)
    IN  [k \in Rows |-> other[m[k]]]

\* the labellings the reorderings give
OtherLabellings == { LabelsAfter(m) : m \in Reorderings }

SameGroups(L1, L2, S) ==
    /\ \A a \in S : (L1[a] = -1) <=> (L2[a] = -1)
    /\ \A a, b \in S : (L1[a] = L1[b]) <=> (L2[a] = L2[b])

\* the labels of the core points within eps of row k
CoreLabelsNear(k) == { labels_[j] : j \in { j \in Rows : IsCorePoint(j) /\ Near(k, j) } }

\* a non-core point within eps of core points of more than one cluster
Contested(k) == ~ IsCorePoint(k) /\ Cardinality(CoreLabelsNear(k)) > 1

\* C5 as stated: the partition into groups is the same for every order of the input
\* (label values aside).
C5_OrderIndependent ==
    pc = "clustered" => \A L2 \in OtherLabellings : SameGroups(labels_, L2, Rows)

\* C5 amended: the noise points are the same and the grouping of all points except
\* the contested ones is the same for every order of the input.
C5_OrderIndependentCore ==
    pc = "clustered" =>
        \A S \in { { k \in Rows : ~ Contested(k) } } :
            \A L2 \in OtherLabellings :
                /\ \A a \in Rows : (labels_[a] = -1) <=> (L2[a] = -1)
                /\ SameGroups(labels_, L2, S)

\* an order change that moves a contested point to another group
C5_Witness ==
    /\ pc = "clustered"
    /\ \E k \in Rows : Contested(k)
    /\ \E L2 \in OtherLabellings : ~ SameGroups(labels_, L2, Rows)

(***************************************************************************)
(* Claims about a splitting pass.  main() takes no maximum cluster size    *)
(* and has no step between the clustering (line 79) and the use of the     *)
(* labels (lines 86 and 89): "before the pass" is dbscan.labels_, "after   *)
(* the pass" is the frame's cluster column and the saved table.            *)
(***************************************************************************)
SizeLimits == 1..3

Finished == pc \in {"saved", "done"}

\* the label each row carries after the pass
FinalLabels == [k \in Rows |-> noisy_points_df[k].cluster]

SizeOf(L, c) == Cardinality({ k \in 1..Len(L) : L[k] = c })

CeilDiv(a, b) == (a + b - 1) \div b

\* the labels that the points of cluster c carry after the pass
SubClusters(c) == { FinalLabels[k] : k \in { k \in Rows : labels_[k] = c } }

Oversized(M) == { c \in LabelSet(labels_) \ {-1} : SizeOf(labels_, c) > M }

C10_FailFast ==
    /\ (num_samples_per_edge < 0 /\ pc # "downloaded" /\ pc # "start" /\ pc # "seeded") =>
           (pc = "error" /\ noisy_x = << >> /\ noisy_y = << >> /\ noisy_points_df = << >>)
    /\ ((min_samples <= 0 \/ estimated_eps <= 0) /\ pc \notin {"start", "seeded", "downloaded", "sampled", "estimated"}) =>
           (pc = "error" /\ labels_ = << >> /\ recovered_points_df = << >> /\ csv = << >>)

(***************************************************************************)
(* Claims about degenerate inputs of the clustering script.                *)
(***************************************************************************)
\* C11: when the collection of sampled points is empty, the clustering stage
\* returns an empty label result without an error and the script goes on to the
\* centroid recovery, which gives an empty mapping.
C11_EmptyClusters ==
    (/\ Len(noisy_points_df) = 0
     /\ pc \notin {"start", "seeded", "downloaded"}
     /\ err \notin {"download", "sample"}
     /\ min_samples >= 1
     /\ estimated_eps > 0) =>
        /\ pc # "error"
        /\ labels_ = << >>
        /\ (Recovered => DOMAIN recovered_points_df = {})

\* C12: when every point carries the noise label, recover_center_points returns an
\* empty mapping and the script is not in an error.
C12_AllNoise ==
    (Recovered /\ \A k \in Rows : noisy_points_df[k].cluster = -1) =>
        /\ DOMAIN recovered_points_df = {}
        /\ pc # "error"
        /\ err = "none"

C12_Witness ==
    /\ Recovered
    /\ Len(noisy_points_df) >= 2
    /\ \A k \in Rows : noisy_points_df[k].cluster = -1
    /\ DOMAIN recovered_points_df = {}

\* C13: recover_center_points is repeatable: every call on the same labelled points
\* returns the mapping the call before it returned, and a call leaves the points and
\* their labels as they were.
C13_Repeatable ==
    [][/\ noisy_points_df' = noisy_points_df
       /\ labels_' = labels_
       /\ (pc = "recovered" => recovered_points_df' = recovered_points_df)]_vars

\* a second call on a frame with two clusters and a noise row
C13_Witness ==
    /\ pc = "recovered"
    /\ calls = 2
    /\ \E k \in Rows : noisy_points_df[k].cluster = -1
    /\ DOMAIN recovered_points_df = {0, 1}

(***************************************************************************)
(* Claims about the random source.                                         *)
(***************************************************************************)
\* the sampler of main() has returned
SamplerReturned ==
    \/ pc \in {"sampled", "estimated", "clustered", "recovered", "saved", "done"}
    \/ pc = "error" /\ err \in {"kneighbors", "dbscan"}

\* the d-th draw after np.random.seed(42), as a numerator over Q
Draw(d) == Generator(SeedValue, d)

\* C14: the random source is seeded once, before any draw, and the sampler draws all
\* arc-length factors, then all x noise, then all y noise; the sampled points are
\* therefore a function of the geometries, N and the noise level alone, the same in
\* every run whatever state the random source started in.
C14_SeededFixedOrder ==
    /\ (pc = "start" => rng.pos = 0)
    /\ (pc # "start" => rng.seed = SeedValue)
    /\ (pc \in {"seeded", "downloaded"} => rng.pos = 0)
    /\ SamplerReturned =>
           LET T == Len(edges_gdf) * num_samples_per_edge
           IN  /\ rng.pos = 3 * T
               /\ Len(noisy_x) = T
               /\ Len(noisy_y) = T
               /\ \A k \in 1..T :
                      LET g == GeomOf(k)
                          base == Interpolate(g, GeomLength(g) * Draw(k - 1))
                      IN  /\ noisy_x[k] = base.x - Q * noise_level
                                             + 2 * noise_level * Draw(T + k - 1)
                          /\ noisy_y[k] = base.y - Q * noise_level
                                             + 2 * noise_level * Draw(2 * T + k - 1)

\* four noisy points sampled after the seeding, the x and y noise of one differing
C14_Witness ==
    /\ pc = "sampled"
    /\ noise_level = 1
    /\ Len(noisy_x) = 4
    /\ rng = [seed |-> SeedValue, pos |-> 12]
    /\ \E k \in 1..4 : Draw(4 + k - 1) # Draw(8 + k - 1)

\* C16: sample_noisy_nodes leaves its input unchanged: the edge collection has the
\* same geometries, lengths and index after the call; nothing but the position of
\* the random source (and the returned sequences) changes.
C16_InputUnchanged ==
    [][pc = "downloaded" =>
          /\ edges_gdf' = edges_gdf
          /\ Lengths(edges_gdf') = Lengths(edges_gdf)
          /\ DOMAIN edges_gdf' = DOMAIN edges_gdf
          /\ num_samples_per_edge' = num_samples_per_edge
          /\ noise_level' = noise_level
          /\ rng'.seed = rng.seed
          /\ (pc' = "sampled" => rng'.pos = rng.pos + 3 * Len(noisy_x'))
          /\ (pc' = "error" => rng' = rng)
          /\ UNCHANGED <<min_samples, estimated_eps, labels_, num_clusters,
                         recovered_points_df, csv, calls, nodeVars>>]_vars

C16_Witness ==
    /\ pc = "sampled"
    /\ Len(edges_gdf) = 2
    /\ edges_gdf[1] # edges_gdf[2]
    /\ num_samples_per_edge = 2
    /\ rng.pos = 12

(***************************************************************************)
(* Claims about the outputs of the clustering script.                      *)
(***************************************************************************)
\* C15: the written table has the header x, y, cluster and exactly one data row per
\* sampled point, noise points included, each with the point's coordinates and the
\* label the clustering stage gave it.
C15_TableRows ==
    Finished =>
        /\ Len(csv) = Len(noisy_x) + 1
        /\ csv[1] = <<"x", "y", "cluster">>
        /\ \A k \in 1..Len(noisy_x) : csv[k + 1] = <<noisy_x[k], noisy_y[k], labels_[k]>>

C15_Witness ==
    /\ Finished
    /\ Len(csv) = 5
    /\ \E k \in 2..5 : csv[k][3] = -1
    /\ \E k \in 2..5 : csv[k][3] = 0

\* C17: the reported cluster count (distinct labels, minus one when -1 occurs)
\* equals the number of centroids recover_center_points returns on the same
\* labelled points.
C17_CountIsCentroids ==
    Recovered =>
        /\ num_clusters = Cardinality(DOMAIN recovered_points_df)
        /\ num_clusters = Cardinality(LabelSet(labels_) \ {-1})

C17_Witness ==
    /\ Recovered
    /\ num_clusters = 2
    /\ Cardinality(DOMAIN recovered_points_df) = 2

(***************************************************************************)
(* Claims about the node scripts.                                          *)
(***************************************************************************)
\* C18: in the node-deletion script exactly min(10, n) distinct nodes of the
\* downloaded graph are selected; the modified graph's nodes are the original nodes
\* minus the selected ones; the original graph keeps its nodes and coordinates, and
\* the marker coordinates are those of the deleted nodes in the original graph.
C18_DeleteFrame ==
    [][/\ (pc # "delete_start" => graph' = graph)
       /\ (pc' \in {"delete_selected", "delete_removed", "delete_marked", "done"} =>
              /\ Len(random_nodes_to_delete') = Min(10, Cardinality(graph'.nodes))
              /\ Cardinality(Range(random_nodes_to_delete')) = Len(random_nodes_to_delete')
              /\ Range(random_nodes_to_delete') \subseteq graph'.nodes)
       /\ (pc' \in {"delete_removed", "delete_marked", "done"} =>
              /\ graph_modified'.nodes = graph'.nodes \ Range(random_nodes_to_delete')
              /\ \A i \in graph_modified'.nodes :
                     /\ graph_modified'.x[i] = graph'.x[i]
                     /\ graph_modified'.y[i] = graph'.y[i]
              /\ graph'.nodes = DOMAIN graph'.x
              /\ graph'.nodes = DOMAIN graph'.y)
       /\ (pc' \in {"delete_marked", "done"} =>
              /\ Len(deleted_node_coords') = Len(random_nodes_to_delete')
              /\ \A k \in 1..Len(random_nodes_to_delete') :
                     deleted_node_coords'[k] = <<graph'.x[random_nodes_to_delete'[k]],
                                                 graph'.y[random_nodes_to_delete'[k]]>>)
       /\ pc' # "caught" \/ pc = "delete_start"]_vars

\* ten of eleven nodes deleted and marked; one node left
C18_Witness ==
    /\ pc = "done"
    /\ Cardinality(graph.nodes) = 11
    /\ Len(random_nodes_to_delete) = 10
    /\ Cardinality(graph_modified.nodes) = 1
    /\ Len(deleted_node_coords) = 10

\* the nodes the loop of move_nodes.py has moved so far
Moved == DOMAIN new_coords

\* C19: in the node-moving script every selected node's new x and new y in the
\* modified graph differ from its original x and y by at most offset_magnitude
\* each; every other node has its original coordinates in the modified graph; the
\* original graph's coordinates are unchanged for all nodes.
C19_MoveFrame ==
    [][/\ (pc # "move_start" => graph' = graph)
       /\ (pc' \in {"move_loop", "move_moved", "done"} =>
              /\ graph_modified'.nodes = graph'.nodes
              /\ Moved' \subseteq Range(nodes_to_move')
              /\ (pc' # "move_loop" => Moved' = Range(nodes_to_move'))
              /\ \A i \in Moved' :
                     /\ Abs(graph_modified'.x[i] - graph'.x[i]) <= offset_magnitude
                     /\ Abs(graph_modified'.y[i] - graph'.y[i]) <= offset_magnitude
                     /\ new_coords'[i] = <<graph_modified'.x[i], graph_modified'.y[i]>>
                     /\ original_coords'[i] = <<graph'.x[i], graph'.y[i]>>
              /\ \A i \in graph'.nodes \ Moved' :
                     /\ graph_modified'.x[i] = graph'.x[i]
                     /\ graph_modified'.y[i] = graph'.y[i])]_vars

\* ten of eleven nodes moved, one of them by the whole magnitude, one node left alone
C19_Witness ==
    /\ pc = "done"
    /\ Cardinality(graph.nodes) = 11
    /\ Cardinality(Moved) = 10
    /\ \E i \in Moved : graph_modified.x[i] = graph.x[i] - offset_magnitude
    /\ \E i \in Moved : graph_modified.y[i] # graph.y[i]
    /\ \E i \in graph.nodes \ Moved : graph_modified.x[i] = graph.x[i]

====
